---- MODULE Spec2Model ----
(***************************************************************************)
(* Model of the Predictive Triadic Consensus Engine: PTCEService           *)
(* (src/src/services/ptce-service.ts), its Evaluation Source adapter       *)
(* OpenAIService (src/src/services/model-service.ts, second half) and the  *)
(* callers that share one PTCEService instance (PTCEController,            *)
(* src/unnamed/part_000).                                                  *)
(*                                                                         *)
(* Numbers.  A JavaScript number is modelled as a fixed-point number with  *)
(* resolution 1/Scale, or NaN, or +/-Infinity.  Every arithmetic operator  *)
(* rounds its result to the nearest representable value, as the IEEE       *)
(* operators of the code do (at a finer resolution).                       *)
(*                                                                         *)
(* Objects.  A JavaScript object with computed string keys is modelled as  *)
(* a sequence of <<key, value>> pairs in insertion order (Put / Get /      *)
(* Keys), so that assigning an existing key overwrites it in place.        *)
(*                                                                         *)
(* Scheduling.  An async method runs atomically from one await to the      *)
(* next; every await is a point where another call on the same instance    *)
(* may run.                                                                *)
(***************************************************************************)
EXTENDS Integers, Sequences, FiniteSets, TLC

\* ------------------------------------------------------------- numbers
Scale == 10 * 10 * 10

NaN == [k |-> "nan", v |-> 0]
Num(n) == [k |-> "num", v |-> n]
Inf(s) == [k |-> "inf", v |-> s]
Lit(i) == Num(i * Scale)
Milli(m) == Num((m * Scale) \div 1000)

IsNaN(x) == x.k = "nan"
IsInf(x) == x.k = "inf"
IsFinite(x) == x.k = "num"
Sgn(x) == IF x.v > 0 THEN 1 ELSE IF x.v < 0 THEN -1 ELSE 0

\* a / b rounded to the nearest integer, b # 0
RoundDiv(a, b) ==
  LET n == IF (a < 0) = (b < 0) THEN 1 ELSE -1
      p == IF a < 0 THEN -a ELSE a
      q == IF b < 0 THEN -b ELSE b
  IN  n * ((2 * p + q) \div (2 * q))

Neg(x) == [x EXCEPT !.v = -x.v]

Add(x, y) ==
  IF IsNaN(x) \/ IsNaN(y) THEN NaN
  ELSE IF IsInf(x) /\ IsInf(y) THEN (IF x.v = y.v THEN x ELSE NaN)
  ELSE IF IsInf(x) THEN x
  ELSE IF IsInf(y) THEN y
  ELSE Num(x.v + y.v)

Sub(x, y) == Add(x, Neg(y))

Mul(x, y) ==
  IF IsNaN(x) \/ IsNaN(y) THEN NaN
  ELSE IF IsInf(x) \/ IsInf(y)
       THEN (IF Sgn(x) * Sgn(y) = 0 THEN NaN ELSE Inf(Sgn(x) * Sgn(y)))
  ELSE Num(RoundDiv(x.v * y.v, Scale))

Div(x, y) ==
  IF IsNaN(x) \/ IsNaN(y) THEN NaN
  ELSE IF IsInf(x) THEN (IF IsInf(y) THEN NaN ELSE Inf(IF y.v < 0 THEN -x.v ELSE x.v))
  ELSE IF IsInf(y) THEN Num(0)
  ELSE IF y.v = 0 THEN (IF x.v = 0 THEN NaN ELSE Inf(Sgn(x)))
  ELSE IF y.v % Scale = 0 THEN Num(RoundDiv(x.v, y.v \div Scale))
  ELSE Num(RoundDiv(x.v * Scale, y.v))

\* x > y of JavaScript: false as soon as one side is NaN
Gt(x, y) ==
  /\ ~IsNaN(x)
  /\ ~IsNaN(y)
  /\ IF IsInf(x) THEN x.v = 1 /\ y # x
     ELSE IF IsInf(y) THEN y.v = -1
     ELSE x.v > y.v

\* Math.abs
Abs(x) == IF IsNaN(x) THEN NaN ELSE IF x.v < 0 THEN Neg(x) ELSE x

\* Math.min
Min(x, y) == IF IsNaN(x) \/ IsNaN(y) THEN NaN ELSE IF Gt(x, y) THEN y ELSE x

\* x || d on numbers: 0 and NaN are falsy
OrElse(x, d) == IF IsNaN(x) \/ (IsFinite(x) /\ x.v = 0) THEN d ELSE x

\* Array.prototype.reduce((sum, x) => sum + x, 0)
RECURSIVE SumSeq(_)
SumSeq(s) == IF s = <<>> THEN Lit(0) ELSE Add(SumSeq(SubSeq(s, 1, Len(s) - 1)), s[Len(s)])

\* e^(-n/Scale) * Scale for an integer n >= 0: the series on [0, 1], squaring above
RECURSIVE Horner(_, _)
Horner(n, i) == IF i > 8 THEN Scale ELSE Scale - RoundDiv(n * Horner(n, i + 1), i * Scale)

RECURSIVE ExpNeg(_)
ExpNeg(n) ==
  IF n > Scale
  THEN LET a == n \div 2 IN RoundDiv(ExpNeg(a) * ExpNeg(n - a), Scale)
  ELSE Horner(n, 1)

\* Math.exp
Exp(x) ==
  IF IsNaN(x) THEN NaN
  ELSE IF IsInf(x) THEN (IF x.v = 1 THEN x ELSE Num(0))
  ELSE IF x.v <= 0 THEN Num(ExpNeg(-x.v))
  ELSE Div(Lit(1), Num(ExpNeg(x.v)))

\* Number.prototype.toFixed(2)
ToFixed2(x) == IF IsFinite(x) THEN [k |-> "num", v |-> RoundDiv(x.v * 100, Scale)] ELSE x

\* ------------------------------------------------------------- objects
HasKey(o, key) == \E i \in 1..Len(o) : o[i][1] = key
Get(o, key) == o[CHOOSE i \in 1..Len(o) : o[i][1] = key][2]
Put(o, key, val) ==
  IF HasKey(o, key)
  THEN [i \in 1..Len(o) |-> IF o[i][1] = key THEN <<key, val>> ELSE o[i]]
  ELSE Append(o, <<key, val>>)
Keys(o) == [i \in 1..Len(o) |-> o[i][1]]
Values(o) == [i \in 1..Len(o) |-> o[i][2]]

\* ------------------------------------------------------------- entities
\* Model records as the controller passes them on: id, name and the five attributes.
Attributes(ap, de, sp, st, en) ==
  [attack_power |-> Lit(ap), defense |-> Lit(de), speed_agility |-> Lit(sp),
   strategy |-> Lit(st), endurance |-> Lit(en)]

Entity(id, name, attrs) == [id |-> id, name |-> name, attributes |-> attrs]

Entities ==
  [a |-> Entity("m1", "Warrior", Attributes(100, 100, 100, 0, 0)),
   b |-> Entity("m2", "Twin", Attributes(100, 100, 100, 0, 0)),
   c |-> Entity("confidence", "Keyword", Attributes(85, 70, 75, 60, 80)),
   d |-> Entity("m3", "Mage", Attributes(70, 60, 65, 90, 60)),
   e |-> Entity("m4", "Titan", Attributes(3000, 3000, 3000, 3000, 3000)),
   f |-> Entity("m5", "Wraith", Attributes(-50000, -50000, -50000, -50000, -50000))]

\* the ordered pairs (model1, model2) a call may be given; identifiers differ
Pairs ==
  {<<Entities.a, Entities.b>>, <<Entities.a, Entities.d>>, <<Entities.d, Entities.a>>,
   <<Entities.a, Entities.c>>, <<Entities.c, Entities.a>>}

\* ------------------------------------------------------------- Evaluation Source
\* A JSON value of the parsed payload: a number, a string or an absent field.
JNumber(n) == [t |-> "number", n |-> n, s |-> ""]
JString(s) == [t |-> "string", n |-> NaN, s |-> s]
JMissing == [t |-> "missing", n |-> NaN, s |-> ""]
JNull == [t |-> "null", n |-> NaN, s |-> ""]
JObject(fields) == [t |-> "object", fields |-> fields]

\* j[name]: undefined when j is no object or holds no such property
Field(j, name) ==
  IF j.t = "object" THEN (IF name \in DOMAIN j.fields THEN j.fields[name] ELSE JMissing)
  ELSE JMissing

\* typeof j
typeof(j) ==
  CASE j.t = "number" -> "number"
    [] j.t = "string" -> "string"
    [] j.t = "missing" -> "undefined"
    [] OTHER -> "object"

\* What openai.chat.completions.create does for one call: it throws, or it returns
\* a message with no content, with content that is no JSON, or with a JSON object.
Raw(kind, score, confidence, reasoning) ==
  [kind |-> kind, score |-> score, confidence |-> confidence, reasoning |-> reasoning]

RawThrow == Raw("throw", JMissing, JMissing, JMissing)
RawEmpty == Raw("empty", JMissing, JMissing, JMissing)
RawUnparsable == Raw("unparsable", JMissing, JMissing, JMissing)
RawJson(score, confidence) == Raw("json", score, confidence, JString("assessment"))
RawNoReasoning == Raw("json", JNumber(Lit(8)), JNumber(Milli(900)), JMissing)

\* payloads evaluateModel lets through although a field is out of range or no number
RawZeroConfidence == RawJson(JNumber(Lit(8)), JString("0"))
RawLowScoreNoConfidence == RawJson(JNumber(Lit(2)), JString("n/a"))

SourceFailures == {RawThrow, RawEmpty, RawUnparsable, RawNoReasoning}

SourceResponses ==
  SourceFailures \cup
  {RawJson(JNumber(Lit(8)), JNumber(Milli(900))),
   RawJson(JString("high"), JNumber(Milli(900)))}

\* !value of JavaScript
Falsy(j) ==
  CASE j.t = "missing" -> TRUE
    [] j.t = "number" -> IsNaN(j.n) \/ (IsFinite(j.n) /\ j.n.v = 0)
    [] j.t = "string" -> j.s = ""
    [] j.t = "null" -> TRUE
    [] j.t = "object" -> FALSE

\* parseFloat of the strings the model's payloads hold
StrToNum(s) ==
  CASE s = "0" -> Lit(0)
    [] s = "8" -> Lit(8)
    [] OTHER -> NaN

parseFloat(j) ==
  CASE j.t = "number" -> j.n
    [] j.t = "string" -> StrToNum(j.s)
    [] OTHER -> NaN

LLMRequest(model, evaluationType) ==
  [modelId |-> model.id, modelName |-> model.name,
   modelAttributes |-> model.attributes, evaluationType |-> evaluationType]

generateFallbackEvaluation(request) ==
  LET at == request.modelAttributes
      basis ==
        CASE request.evaluationType = "creativity" -> Add(at.strategy, at.endurance)
          [] request.evaluationType = "technical" -> Add(at.defense, at.speed_agility)
          [] request.evaluationType = "performance" -> Add(at.attack_power, at.speed_agility)
      score ==
        IF request.evaluationType \in {"creativity", "technical", "performance"}
        THEN Add(Lit(5), Mul(Div(Div(basis, Lit(2)), Lit(100)), Lit(5)))
        ELSE Milli(7500)
  IN  [score |-> score,
       confidence |-> Milli(700),
       reasoning |-> <<"Fallback evaluation for", request.modelName, "based on",
                       request.evaluationType, "criteria.">>]

evaluateModel(request, raw) ==
  IF raw.kind # "json" THEN generateFallbackEvaluation(request)
  ELSE IF Falsy(raw.score) \/ Falsy(raw.confidence) \/ Falsy(raw.reasoning)
       THEN generateFallbackEvaluation(request)
  ELSE [score |-> parseFloat(raw.score),
        confidence |-> parseFloat(raw.confidence),
        reasoning |-> <<raw.reasoning.s>>]

\* ------------------------------------------------------------- simulated evaluations
\* evaluateAttribute with the overall mean of the five attributes for every type
evaluateAttribute_Overall(model, attributeType, min, max) ==
  LET at == model.attributes
      baseScore ==
        Div(Add(Add(Add(Add(at.attack_power, at.defense), at.speed_agility), at.strategy),
                at.endurance), Lit(5))
  IN  Add(min, Mul(Div(baseScore, Lit(100)), Sub(max, min)))

evaluateAttribute(model, attributeType, min, max) ==
  LET at == model.attributes
      baseScore ==
        CASE attributeType = "creativity" -> Div(Add(at.strategy, at.endurance), Lit(2))
          [] attributeType = "technical" -> Div(Add(at.defense, at.speed_agility), Lit(2))
          [] attributeType = "performance" -> Div(Add(at.attack_power, at.speed_agility), Lit(2))
          [] OTHER ->
               Div(Add(Add(Add(Add(at.attack_power, at.defense), at.speed_agility), at.strategy),
                       at.endurance), Lit(5))
  IN  Add(min, Mul(Div(baseScore, Lit(100)), Sub(max, min)))

\* generateConfidenceScore drawing up to 0.5 above 0.7
generateConfidenceScore_Wide(random) == Add(Milli(700), Mul(random, Milli(500)))

\* 0.7 + Math.random() * 0.25, for the value random that Math.random() returns
generateConfidenceScore(random) == Add(Milli(700), Mul(random, Milli(250)))

Level(attribute) == IF Gt(attribute, Lit(70)) THEN "high" ELSE "moderate"

\* performSimulatedEvaluations, randoms being the six values Math.random() returns
performSimulatedEvaluations(model1, model2, randoms) ==
  LET Evaluation(model, attributeType, random, reasoning) ==
        [score |-> evaluateAttribute(model, attributeType, Lit(5), Lit(10)),
         confidence |-> generateConfidenceScore(random),
         reasoning |-> reasoning]
      Creativity(model, random) ==
        Evaluation(model, "creativity", random,
                   <<"Model", model.name, "shows", Level(model.attributes.strategy), "creativity.">>)
      Technical(model, random) ==
        Evaluation(model, "technical", random,
                   <<"Model", model.name, "demonstrates", Level(model.attributes.defense),
                     "technical stability.">>)
      Performance(model, random) ==
        Evaluation(model, "performance", random,
                   <<"Model", model.name, "performs with", Level(model.attributes.attack_power),
                     "effectiveness.">>)
  IN  [llm1 |-> Put(Put(<<>>, model1.id, Creativity(model1, randoms[1])),
                    model2.id, Creativity(model2, randoms[2])),
       llm2 |-> Put(Put(<<>>, model1.id, Technical(model1, randoms[3])),
                    model2.id, Technical(model2, randoms[4])),
       llm3 |-> Put(Put(<<>>, model1.id, Performance(model1, randoms[5])),
                    model2.id, Performance(model2, randoms[6]))]

\* ------------------------------------------------------------- Interaction Log
\* logInteraction pushes one entry; run is the call that pushed it (kept for the
\* properties only: the code's entry does not name its run).
Entry(run, phase, llm, action) == [run |-> run, phase |-> phase, llm |-> llm, action |-> action]

\* ------------------------------------------------------------- Discussion
calculateVariance(scores) ==
  LET n == Lit(Len(scores))
      mean == Div(SumSeq(scores), n)
      squaredDifferences ==
        [i \in 1..Len(scores) |-> Mul(Sub(scores[i], mean), Sub(scores[i], mean))]
  IN  Div(SumSeq(squaredDifferences), n)

SlotScores(evaluations, modelId) ==
  <<Get(evaluations.llm1, modelId).score,
    Get(evaluations.llm2, modelId).score,
    Get(evaluations.llm3, modelId).score>>

SlotConfidences(evaluations, modelId) ==
  <<Get(evaluations.llm1, modelId).confidence,
    Get(evaluations.llm2, modelId).confidence,
    Get(evaluations.llm3, modelId).confidence>>

\* a round that moves every score half of the way to the mean
adjustmentFactor_Half == Milli(500)

adjustmentFactor == Milli(400)

\* A number after JSON.parse(JSON.stringify(..)): NaN and the infinities are written
\* as null, and null counts as 0 in the arithmetic that follows.
JsonCopy(x) == IF IsFinite(x) THEN x ELSE Lit(0)

\* The score is computed from the original evaluation, the confidence from the copy.
AdjustOne(evaluation, mean) ==
  [evaluation EXCEPT
     !.score = Add(Mul(evaluation.score, Sub(Lit(1), adjustmentFactor)),
                   Mul(mean, adjustmentFactor)),
     !.confidence = Add(JsonCopy(evaluation.confidence),
                        Mul(Sub(Lit(1), JsonCopy(evaluation.confidence)), Milli(300)))]

RECURSIVE AdjustModels(_, _, _)
AdjustModels(initialEvaluations, adjusted, modelIds) ==
  IF modelIds = <<>> THEN adjusted
  ELSE LET modelId == Head(modelIds)
           scores == SlotScores(initialEvaluations, modelId)
           mean == Div(SumSeq(scores), Lit(Len(scores)))
           next ==
             [llm1 |-> Put(adjusted.llm1, modelId, AdjustOne(Get(adjusted.llm1, modelId), mean)),
              llm2 |-> Put(adjusted.llm2, modelId, AdjustOne(Get(adjusted.llm2, modelId), mean)),
              llm3 |-> Put(adjusted.llm3, modelId, AdjustOne(Get(adjusted.llm3, modelId), mean))]
       IN  AdjustModels(initialEvaluations, next, Tail(modelIds))

simulateDiscussionRound(initialEvaluations) ==
  AdjustModels(initialEvaluations, initialEvaluations, Keys(initialEvaluations.llm1))

VarianceThreshold == Lit(2)

\* highDisagreement with >= for >: a variance of exactly 2 starts a round
highDisagreement_AtThreshold(varianceByModel) ==
  \E i \in 1..Len(varianceByModel) :
    \/ Gt(varianceByModel[i][2], VarianceThreshold)
    \/ varianceByModel[i][2] = VarianceThreshold

highDisagreement(varianceByModel) ==
  \E i \in 1..Len(varianceByModel) : Gt(varianceByModel[i][2], VarianceThreshold)

\* facilitateInteractiveDiscussion repeating the round while the variance stays high
facilitateInteractiveDiscussion_Iterate(run, initialEvaluations) ==
  LET modelIds == Keys(initialEvaluations.llm1)
      Variances(evaluations) ==
        [i \in 1..Len(modelIds) |->
           <<modelIds[i], calculateVariance(SlotScores(evaluations, modelIds[i]))>>]
      listed == [i \in 1..Len(modelIds) |->
                   <<modelIds[i], ToFixed2(Variances(initialEvaluations)[i][2])>>]
      head ==
        <<Entry(run, "discussion", "", "start_discussion")>> \o
        [i \in 1..Len(modelIds) |-> Entry(run, "discussion", "", "calculated_variance")]
      once == simulateDiscussionRound(initialEvaluations)
  IN  IF highDisagreement(Variances(initialEvaluations))
      THEN [evaluations |-> IF highDisagreement(Variances(once))
                            THEN simulateDiscussionRound(once) ELSE once,
            reasoning |-> [text |-> "Initial disagreement detected", variance |-> listed],
            entries |-> head \o <<Entry(run, "discussion", "", "high_disagreement_detected"),
                                  Entry(run, "discussion", "", "discussion_completed")>>]
      ELSE [evaluations |-> initialEvaluations,
            reasoning |-> [text |-> "Agreement achieved", variance |-> listed],
            entries |-> head \o <<Entry(run, "discussion", "", "no_discussion_needed")>>]

\* facilitateInteractiveDiscussion holding state across calls: the round is run
\* by every other call only
facilitateInteractiveDiscussion_EveryOtherCall(run, initialEvaluations) ==
  LET modelIds == Keys(initialEvaluations.llm1)
      varianceByModel ==
        [i \in 1..Len(modelIds) |->
           <<modelIds[i], calculateVariance(SlotScores(initialEvaluations, modelIds[i]))>>]
      listed == [i \in 1..Len(modelIds) |-> <<modelIds[i], ToFixed2(varianceByModel[i][2])>>]
      head ==
        <<Entry(run, "discussion", "", "start_discussion")>> \o
        [i \in 1..Len(modelIds) |-> Entry(run, "discussion", "", "calculated_variance")]
  IN  IF highDisagreement(varianceByModel) /\ run % 2 = 1
      THEN [evaluations |-> simulateDiscussionRound(initialEvaluations),
            reasoning |-> [text |-> "Initial disagreement detected", variance |-> listed],
            entries |-> head \o <<Entry(run, "discussion", "", "high_disagreement_detected"),
                                  Entry(run, "discussion", "", "discussion_completed")>>]
      ELSE [evaluations |-> initialEvaluations,
            reasoning |-> [text |-> "Agreement achieved", variance |-> listed],
            entries |-> head \o <<Entry(run, "discussion", "", "no_discussion_needed")>>]

facilitateInteractiveDiscussion(run, initialEvaluations) ==
  LET modelIds == Keys(initialEvaluations.llm1)
      varianceByModel ==
        [i \in 1..Len(modelIds) |->
           <<modelIds[i], calculateVariance(SlotScores(initialEvaluations, modelIds[i]))>>]
      listed == [i \in 1..Len(modelIds) |-> <<modelIds[i], ToFixed2(varianceByModel[i][2])>>]
      head ==
        <<Entry(run, "discussion", "", "start_discussion")>> \o
        [i \in 1..Len(modelIds) |-> Entry(run, "discussion", "", "calculated_variance")]
  IN  IF highDisagreement(varianceByModel)
      THEN [evaluations |-> simulateDiscussionRound(initialEvaluations),
            reasoning |-> [text |-> "Initial disagreement detected", variance |-> listed],
            entries |-> head \o <<Entry(run, "discussion", "", "high_disagreement_detected"),
                                  Entry(run, "discussion", "", "discussion_completed")>>]
      ELSE [evaluations |-> initialEvaluations,
            reasoning |-> [text |-> "Agreement achieved", variance |-> listed],
            entries |-> head \o <<Entry(run, "discussion", "", "no_discussion_needed")>>]

\* ------------------------------------------------------------- Consensus
\* ModelConsensusScore dividing the weighted sum by the number of slots
ModelConsensusScore_DivideByCount(evaluations, modelId) ==
  LET scores == SlotScores(evaluations, modelId)
      confidences == SlotConfidences(evaluations, modelId)
      weightedScores == [i \in 1..Len(scores) |-> Mul(scores[i], confidences[i])]
  IN  [individualScores |-> scores,
       confidenceScores |-> confidences,
       weightedScores |-> weightedScores,
       finalScore |-> Div(SumSeq(weightedScores), Lit(Len(scores)))]

\* ModelConsensusScore with the plain mean of the three scores as finalScore
ModelConsensusScore_PlainMean(evaluations, modelId) ==
  LET scores == SlotScores(evaluations, modelId)
      confidences == SlotConfidences(evaluations, modelId)
      weightedScores == [i \in 1..Len(scores) |-> Mul(scores[i], confidences[i])]
  IN  [individualScores |-> scores,
       confidenceScores |-> confidences,
       weightedScores |-> weightedScores,
       finalScore |-> Div(SumSeq(scores), Lit(Len(scores)))]

ModelConsensusScore(evaluations, modelId) ==
  LET scores == SlotScores(evaluations, modelId)
      confidences == SlotConfidences(evaluations, modelId)
      weightedScores == [i \in 1..Len(scores) |-> Mul(scores[i], confidences[i])]
      confidenceSum == SumSeq(confidences)
      finalScore == Div(SumSeq(weightedScores), confidenceSum)
  IN  [individualScores |-> scores,
       confidenceScores |-> confidences,
       weightedScores |-> weightedScores,
       finalScore |-> finalScore]

RECURSIVE ConsensusEntries(_, _, _)
ConsensusEntries(evaluations, result, modelIds) ==
  IF modelIds = <<>> THEN result
  ELSE ConsensusEntries(evaluations,
                        Put(result, Head(modelIds), ModelConsensusScore(evaluations, Head(modelIds))),
                        Tail(modelIds))

\* result.confidence = Math.min(1.0, scoreDifference / 2 + 0.5)
overallConfidence(score1, score2) ==
  Min(Lit(1), Add(Div(Abs(Sub(score1, score2)), Lit(2)), Milli(500)))

\* calculateConsensusScores logging its start under the predictive phase after
\* the per-model entries
calculateConsensusScores_LateStart(run, discussionResults, modelIds) ==
  LET evaluations == discussionResults.evaluations
      perModel == ConsensusEntries(evaluations, <<>>, modelIds)
      scores == [i \in 1..Len(modelIds) |-> Get(perModel, modelIds[i]).finalScore]
  IN  [result |-> Put(perModel, "confidence", overallConfidence(scores[1], scores[2])),
       entries |->
         <<Entry(run, "predictive_integration", "", "start_consensus_calculation")>> \o
         [i \in 1..Len(modelIds) |-> Entry(run, "consensus_building", "", "model_consensus_calculated")] \o
         <<Entry(run, "consensus_building", "", "overall_confidence_calculated")>>]

\* The ConsensusScores object (one property per model id and the property
\* "confidence") and the entries logged on the way.
calculateConsensusScores(run, discussionResults, modelIds) ==
  LET evaluations == discussionResults.evaluations
      perModel == ConsensusEntries(evaluations, <<>>, modelIds)
      head ==
        <<Entry(run, "consensus_building", "", "start_consensus_calculation")>> \o
        [i \in 1..Len(modelIds) |-> Entry(run, "consensus_building", "", "model_consensus_calculated")]
  IN  IF Len(modelIds) >= 2
      THEN LET scores == [i \in 1..Len(modelIds) |-> Get(perModel, modelIds[i]).finalScore]
           IN  [result |-> Put(perModel, "confidence", overallConfidence(scores[1], scores[2])),
                entries |-> head \o
                  <<Entry(run, "consensus_building", "", "overall_confidence_calculated")>>]
      ELSE [result |-> Put(perModel, "confidence", Milli(700)),
            entries |-> head \o <<Entry(run, "consensus_building", "", "default_confidence_used")>>]

\* consensusScores[id].<field>: undefined when the property holds a number
IsConsensusEntry(value) == "finalScore" \in DOMAIN value
FinalScoreOf(consensusScores, id) ==
  IF IsConsensusEntry(Get(consensusScores, id)) THEN Get(consensusScores, id).finalScore ELSE NaN

\* ------------------------------------------------------------- Predictive
generateFeatureVector(model) ==
  LET at == model.attributes
  IN  <<Div(at.attack_power, Lit(100)),
        Div(at.defense, Lit(100)),
        Div(at.speed_agility, Lit(100)),
        Div(at.strategy, Lit(100)),
        Div(at.endurance, Lit(100)),
        Div(Add(at.attack_power, at.speed_agility), Lit(200)),
        Div(Add(at.defense, at.endurance), Lit(200)),
        Div(at.strategy, Lit(100))>>

weights ==
  <<Milli(200), Milli(150), Milli(150), Milli(250), Milli(150), Milli(300), Milli(250), Milli(400)>>

\* 1 + Math.exp(-x) is the double 1 as soon as Math.exp(-x) <= 2^-53, that is from
\* x = 53 * ln 2 = 36.7368... on; Math.exp(-x) is Infinity below x = -709.7827...
SaturatesFrom == 36737
OverflowsFrom == 709783

\* simulateNeuralNetworkPrediction without the activation: the weighted sum itself
simulateNeuralNetworkPrediction_NoActivation(weightedFeatures) ==
  SumSeq([i \in 1..Len(weightedFeatures) |->
            Mul(weightedFeatures[i], weights[((i - 1) % Len(weights)) + 1])])

\* 1 / (1 + Math.exp(-weightedSum)): exactly 1 or exactly 0 where the double
\* saturates, and otherwise a value that rounding keeps strictly between them
simulateNeuralNetworkPrediction(weightedFeatures) ==
  LET weightedSum ==
        SumSeq([i \in 1..Len(weightedFeatures) |->
                  Mul(weightedFeatures[i], weights[((i - 1) % Len(weights)) + 1])])
      sigmoid == Div(Lit(1), Add(Lit(1), Exp(Neg(weightedSum))))
  IN  IF ~IsFinite(weightedSum) THEN sigmoid
      ELSE IF weightedSum.v * 1000 >= SaturatesFrom * Scale THEN Lit(1)
      ELSE IF weightedSum.v * 1000 <= -OverflowsFrom * Scale THEN Lit(0)
      ELSE IF sigmoid.v >= Scale THEN Num(Scale - 1)
      ELSE IF sigmoid.v <= 0 THEN Num(1)
      ELSE sigmoid

Prediction(model, confidenceScores) ==
  LET featureVector == generateFeatureVector(model)
      weightedFeatures ==
        [i \in 1..Len(featureVector) |-> Mul(featureVector[i], confidenceScores[((i - 1) % 3) + 1])]
  IN  simulateNeuralNetworkPrediction(weightedFeatures)

\* The loop over [model1, model2]: threw is TRUE when reading confidenceScores[...]
\* of a property that holds no consensus entry raises a TypeError; entries are
\* the ones logged up to that point.
RECURSIVE PredictModels(_, _, _, _, _)
PredictModels(run, models, consensusScores, result, entries) ==
  IF models = <<>> THEN [threw |-> FALSE, result |-> result, entries |-> entries]
  ELSE LET model == Head(models)
           value == Get(consensusScores, model.id)
           fv == Entry(run, "predictive_integration", "", "feature_vector_generated")
       IN  IF ~IsConsensusEntry(value)
           THEN [threw |-> TRUE, result |-> result, entries |-> Append(entries, fv)]
           ELSE PredictModels(run, Tail(models), consensusScores,
                              Put(result, model.id, Prediction(model, value.confidenceScores)),
                              entries \o
                                <<fv,
                                  Entry(run, "predictive_integration", "", "weighted_features_calculated"),
                                  Entry(run, "predictive_integration", "", "prediction_generated")>>)

generatePredictiveOutcomes(run, model1, model2, consensusScores) ==
  PredictModels(run, <<model1, model2>>, consensusScores, <<>>,
                <<Entry(run, "predictive_integration", "", "start_predictive_outcomes")>>)

\* ------------------------------------------------------------- Determination
\* 0.7 * consensusScores[id].finalScore + 0.3 * predictiveOutcomes[id] * 10
FinalScore(consensusScores, predictiveOutcomes, id) ==
  Add(Mul(Milli(700), FinalScoreOf(consensusScores, id)),
      Mul(Mul(Milli(300), Get(predictiveOutcomes, id)), Lit(10)))

\* determineWinnerModel with >= for >: a tie goes to the first entity
determineWinnerModel_TieFirst(run, model1, model2, consensusScores, predictiveOutcomes) ==
  LET model1FinalScore == FinalScore(consensusScores, predictiveOutcomes, model1.id)
      model2FinalScore == FinalScore(consensusScores, predictiveOutcomes, model2.id)
  IN  [winner |-> IF Gt(model1FinalScore, model2FinalScore) \/ model1FinalScore = model2FinalScore
                  THEN model1 ELSE model2,
       model1FinalScore |-> model1FinalScore,
       model2FinalScore |-> model2FinalScore,
       entries |-> <<Entry(run, "final_determination", "", "calculating_final_scores"),
                     Entry(run, "final_determination", "", "final_scores_calculated")>>]

determineWinnerModel(run, model1, model2, consensusScores, predictiveOutcomes) ==
  LET model1FinalScore == FinalScore(consensusScores, predictiveOutcomes, model1.id)
      model2FinalScore == FinalScore(consensusScores, predictiveOutcomes, model2.id)
  IN  [winner |-> IF Gt(model1FinalScore, model2FinalScore) THEN model1 ELSE model2,
       model1FinalScore |-> model1FinalScore,
       model2FinalScore |-> model2FinalScore,
       entries |-> <<Entry(run, "final_determination", "", "calculating_final_scores"),
                     Entry(run, "final_determination", "", "final_scores_calculated")>>]

\* ------------------------------------------------------------- state
MaxCalls == 2
MaxSwitches == 3

Runs == {1, 2}

Undefined == [kind |-> "undefined"]
\* consensusScores and predictiveOutcomes before their stage has built them (kept
\* an object, so that any two states of a behaviour can be compared)
NoObject == <<>>
GenericError == [kind |-> "error", message |-> "Failed to determine winner using PTCE algorithm"]

\* slot -> label, criterion and the action logged before its two calls
Slots ==
  <<[llm |-> "LLM1 (ChatGPT)", criterion |-> "creativity", evaluating |-> "evaluating_creativity"],
    [llm |-> "LLM2 (DeepSeek)", criterion |-> "technical", evaluating |-> "evaluating_technical"],
    [llm |-> "LLM3 (Grok)", criterion |-> "performance", evaluating |-> "evaluating_performance"]>>

VARIABLES
  interactionLog,      \* PTCEService.interactionLog, one array for all calls
  pc,                  \* pc[r]: where call r of determineWinner(WithDetails) stands
  args,                \* args[r]: model1, model2 and which of the two methods runs
  got,                 \* got[r]: the evaluations performInitialEvaluations holds so far
  evaluations,         \* evaluations[r]: the InitialEvaluations it returned
  discussionResults,   \* discussionResults[r]
  consensusScores,     \* consensusScores[r]
  predictiveOutcomes,  \* predictiveOutcomes[r]
  finalScores,         \* finalScores[r]: model1FinalScore, model2FinalScore as logged
  outcome,             \* outcome[r]: the value the call resolved with or the error it threw
  pushed,              \* pushed[r]: how many entries call r pushed (for the properties)
  calls,               \* calls begun so far
  sched,               \* the caller that ran last and the switches between callers so far
  env,                 \* the environment of this behaviour: callers, source, inputs
  handler,             \* the request handler of PTCEController: position, body, response
  db                   \* the rows of ptce_evaluations

\* no request has reached the controller
NoRequest == [at |-> "none"]

vars ==
  <<interactionLog, pc, args, got, evaluations, discussionResults, consensusScores,
    predictiveOutcomes, finalScores, outcome, pushed, calls, sched, env, handler, db>>

InitService(e) ==
  /\ env = e
  /\ interactionLog = <<>>
  /\ pc = [r \in Runs |-> "idle"]
  /\ args = [r \in Runs |-> Undefined]
  /\ got = [r \in Runs |-> <<>>]
  /\ evaluations = [r \in Runs |-> Undefined]
  /\ discussionResults = [r \in Runs |-> Undefined]
  /\ consensusScores = [r \in Runs |-> NoObject]
  /\ predictiveOutcomes = [r \in Runs |-> NoObject]
  /\ finalScores = [r \in Runs |-> Undefined]
  /\ outcome = [r \in Runs |-> Undefined]
  /\ pushed = [r \in Runs |-> 0]
  /\ calls = 0
  /\ sched = [last |-> 0, switches |-> 0]

\* the service called directly, without the controller
InitWith(e) ==
  /\ InitService(e)
  /\ handler = NoRequest
  /\ db = <<>>

\* one caller at a time, any pair, either method, a source that may fail or answer
Init ==
  InitWith([callers |-> {1}, responses |-> SourceResponses, pairs |-> Pairs,
            detailed |-> BOOLEAN])

\* two callers of the one instance, a source that always answers well
InitOverlap ==
  InitWith([callers |-> Runs,
            responses |-> {RawJson(JNumber(Lit(8)), JNumber(Milli(900)))},
            pairs |-> {<<Entities.a, Entities.d>>},
            detailed |-> {TRUE}])

\* this.interactionLog.push(entry), for each entry in turn
Log(r, entries) ==
  /\ interactionLog' = interactionLog \o entries
  /\ pushed' = [pushed EXCEPT ![r] = @ + Len(entries)]

\* determineWinner / determineWinnerWithDetails up to the first await: reset the
\* log, log the start, enter performInitialEvaluations and issue the first call.
Call(r, model1, model2, detailed) ==
  /\ pc[r] \in {"idle", "returned", "failed"}
  /\ calls < MaxCalls
  /\ args' = [args EXCEPT ![r] = [kind |-> "args", model1 |-> model1, model2 |-> model2,
                                  detailed |-> detailed]]
  /\ LET entries ==
           <<Entry(r, "final_determination", "", "start_evaluation"),
             Entry(r, "initial_evaluation", "", "start_initial_evaluations"),
             Entry(r, "initial_evaluation", Slots[1].llm, Slots[1].evaluating)>>
     IN  /\ interactionLog' = entries
         /\ pushed' = [pushed EXCEPT ![r] = Len(entries)]
  /\ pc' = [pc EXCEPT ![r] = "initial_evaluation"]
  /\ got' = [got EXCEPT ![r] = <<>>]
  /\ evaluations' = [evaluations EXCEPT ![r] = Undefined]
  /\ discussionResults' = [discussionResults EXCEPT ![r] = Undefined]
  /\ consensusScores' = [consensusScores EXCEPT ![r] = NoObject]
  /\ predictiveOutcomes' = [predictiveOutcomes EXCEPT ![r] = NoObject]
  /\ finalScores' = [finalScores EXCEPT ![r] = Undefined]
  /\ outcome' = [outcome EXCEPT ![r] = Undefined]
  /\ calls' = calls + 1
  /\ UNCHANGED env

\* a call of the service by a caller of the environment
Start(r) ==
  /\ r \in env.callers
  /\ \E pair \in env.pairs, d \in env.detailed : Call(r, pair[1], pair[2], d)
  /\ UNCHANGED <<handler, db>>

\* the InitialEvaluations object built from the six evaluations, in call order
InitialEvaluations(model1, model2, six) ==
  [llm1 |-> Put(Put(<<>>, model1.id, six[1]), model2.id, six[2]),
   llm2 |-> Put(Put(<<>>, model1.id, six[3]), model2.id, six[4]),
   llm3 |-> Put(Put(<<>>, model1.id, six[5]), model2.id, six[6])]

\* performInitialEvaluations from the resolution of one awaited evaluateModel call
\* to the next await: log the evaluation, then issue the next call or return.
EvalResolve(r) ==
  /\ pc[r] = "initial_evaluation"
  /\ \E raw \in env.responses :
       LET n == Len(got[r]) + 1
           slot == (n + 1) \div 2
           model == IF n % 2 = 1 THEN args[r].model1 ELSE args[r].model2
           response == evaluateModel(LLMRequest(model, Slots[slot].criterion), raw)
           six == Append(got[r], response)
           evaluated == Entry(r, "initial_evaluation", Slots[slot].llm, "evaluated_model")
       IN  IF n < 6
           THEN /\ Log(r, IF n % 2 = 0
                          THEN <<evaluated,
                                 Entry(r, "initial_evaluation", Slots[slot + 1].llm,
                                       Slots[slot + 1].evaluating)>>
                          ELSE <<evaluated>>)
                /\ got' = [got EXCEPT ![r] = six]
                /\ UNCHANGED <<pc, evaluations>>
           ELSE /\ Log(r, <<evaluated,
                            Entry(r, "initial_evaluation", "", "completed_initial_evaluations")>>)
                /\ got' = [got EXCEPT ![r] = <<>>]
                /\ evaluations' = [evaluations EXCEPT ![r] =
                                     InitialEvaluations(args[r].model1, args[r].model2, six)]
                /\ pc' = [pc EXCEPT ![r] = "discussion"]
  /\ UNCHANGED <<args, discussionResults, consensusScores, predictiveOutcomes, finalScores,
                 outcome, calls, env, handler, db>>

\* the Discussion Stage adjusting the EvaluationSet in place instead of a copy
Discussion_InPlace(r) ==
  /\ pc[r] = "discussion"
  /\ LET d == facilitateInteractiveDiscussion(r, evaluations[r])
     IN  /\ Log(r, d.entries)
         /\ evaluations' = [evaluations EXCEPT ![r] = d.evaluations]
         /\ discussionResults' = [discussionResults EXCEPT ![r] =
                                    [evaluations |-> d.evaluations, reasoning |-> d.reasoning]]
  /\ pc' = [pc EXCEPT ![r] = "consensus"]
  /\ UNCHANGED <<args, got, consensusScores, predictiveOutcomes, finalScores,
                 outcome, calls, env, handler, db>>

\* await this.facilitateInteractiveDiscussion(evaluations)
Discussion(r) ==
  /\ pc[r] = "discussion"
  /\ LET d == facilitateInteractiveDiscussion(r, evaluations[r])
     IN  /\ Log(r, d.entries)
         /\ discussionResults' = [discussionResults EXCEPT ![r] =
                                    [evaluations |-> d.evaluations, reasoning |-> d.reasoning]]
  /\ pc' = [pc EXCEPT ![r] = "consensus"]
  /\ UNCHANGED <<args, got, evaluations, consensusScores, predictiveOutcomes, finalScores,
                 outcome, calls, env, handler, db>>

\* ConsensusPredictive whose catch starts the run again instead of throwing
ConsensusPredictive_Retry(r) ==
  /\ pc[r] = "consensus"
  /\ LET c == calculateConsensusScores(r, discussionResults[r],
                                       <<args[r].model1.id, args[r].model2.id>>)
         p == generatePredictiveOutcomes(r, args[r].model1, args[r].model2, c.result)
     IN  IF p.threw
         THEN /\ interactionLog' = <<Entry(r, "final_determination", "", "start_evaluation")>>
              /\ pushed' = [pushed EXCEPT ![r] = 1]
              /\ pc' = [pc EXCEPT ![r] = "initial_evaluation"]
              /\ UNCHANGED <<consensusScores, predictiveOutcomes>>
         ELSE /\ Log(r, c.entries \o p.entries)
              /\ consensusScores' = [consensusScores EXCEPT ![r] = c.result]
              /\ pc' = [pc EXCEPT ![r] = "determination"]
              /\ predictiveOutcomes' = [predictiveOutcomes EXCEPT ![r] = p.result]
  /\ UNCHANGED <<args, got, evaluations, discussionResults, finalScores, outcome, calls, env,
                 handler, db>>

\* calculateConsensusScores, then generatePredictiveOutcomes up to its await; an
\* exception lands in the catch of determineWinner, which throws the generic error.
ConsensusPredictive(r) ==
  /\ pc[r] = "consensus"
  /\ LET c == calculateConsensusScores(r, discussionResults[r],
                                       <<args[r].model1.id, args[r].model2.id>>)
         p == generatePredictiveOutcomes(r, args[r].model1, args[r].model2, c.result)
     IN  /\ Log(r, c.entries \o p.entries)
         /\ consensusScores' = [consensusScores EXCEPT ![r] = c.result]
         /\ IF p.threw
            THEN /\ pc' = [pc EXCEPT ![r] = "failed"]
                 /\ outcome' = [outcome EXCEPT ![r] = GenericError]
                 /\ UNCHANGED predictiveOutcomes
            ELSE /\ pc' = [pc EXCEPT ![r] = "determination"]
                 /\ predictiveOutcomes' = [predictiveOutcomes EXCEPT ![r] = p.result]
                 /\ UNCHANGED outcome
  /\ UNCHANGED <<args, got, evaluations, discussionResults, finalScores, calls, env, handler, db>>

\* Result reporting the blended determination scores
Result_Blended(r, winner, interactions) ==
  [kind |-> "result",
   winner |-> winner,
   scores |-> Put(Put(<<>>, args[r].model1.id,
                      FinalScore(consensusScores[r], predictiveOutcomes[r], args[r].model1.id)),
                  args[r].model2.id,
                  FinalScore(consensusScores[r], predictiveOutcomes[r], args[r].model2.id)),
   confidence |-> OrElse(Get(consensusScores[r], "confidence"), Milli(700)),
   reasoning |-> discussionResults[r].reasoning]

\* Result with both scores stored under model1.id
Result_OneKey(r, winner, interactions) ==
  [kind |-> "result",
   winner |-> winner,
   scores |-> Put(Put(<<>>, args[r].model1.id, FinalScoreOf(consensusScores[r], args[r].model1.id)),
                  args[r].model1.id, FinalScoreOf(consensusScores[r], args[r].model2.id)),
   confidence |-> OrElse(Get(consensusScores[r], "confidence"), Milli(700)),
   reasoning |-> discussionResults[r].reasoning]

\* the object literal of the return statement
Result(r, winner, interactions) ==
  LET model1 == args[r].model1
      model2 == args[r].model2
      short ==
        [kind |-> "result",
         winner |-> winner,
         scores |-> Put(Put(<<>>, model1.id, FinalScoreOf(consensusScores[r], model1.id)),
                        model2.id, FinalScoreOf(consensusScores[r], model2.id)),
         confidence |-> OrElse(Get(consensusScores[r], "confidence"), Milli(700)),
         reasoning |-> discussionResults[r].reasoning]
  IN  IF args[r].detailed
      THEN [kind |-> "result", winner |-> short.winner, scores |-> short.scores,
            confidence |-> short.confidence, reasoning |-> short.reasoning,
            interactions |-> interactions,
            initialEvaluations |-> evaluations[r],
            discussionResults |-> discussionResults[r],
            consensusScores |-> consensusScores[r],
            predictiveOutcomes |-> predictiveOutcomes[r]]
      ELSE short

\* determineWinnerModel, the last log entry and the return; interactions is the
\* log as the caller finds it when the call returns
Determination(r) ==
  /\ pc[r] = "determination"
  /\ LET w == determineWinnerModel(r, args[r].model1, args[r].model2,
                                   consensusScores[r], predictiveOutcomes[r])
         entries == Append(w.entries, Entry(r, "final_determination", "", "winner_determined"))
     IN  /\ Log(r, entries)
         /\ finalScores' = [finalScores EXCEPT ![r] =
                              [kind |-> "scores", model1 |-> w.model1FinalScore,
                               model2 |-> w.model2FinalScore]]
         /\ outcome' = [outcome EXCEPT ![r] = Result(r, w.winner, interactionLog \o entries)]
  /\ pc' = [pc EXCEPT ![r] = "returned"]
  /\ UNCHANGED <<args, got, evaluations, discussionResults, consensusScores,
                 predictiveOutcomes, calls, env, handler, db>>

\* The event loop resumes caller r; the model follows at most MaxSwitches changes
\* of the running caller.
Resume(r) ==
  /\ sched.last \in {0, r} \/ sched.switches < MaxSwitches
  /\ sched' = [last |-> r,
               switches |-> IF sched.last \in {0, r} THEN sched.switches ELSE sched.switches + 1]

Next ==
  \/ \E r \in Runs : Resume(r) /\ Start(r)
  \/ \E r \in Runs : Resume(r) /\ EvalResolve(r)
  \/ \E r \in Runs : Resume(r) /\ Discussion(r)
  \/ \E r \in Runs : Resume(r) /\ ConsensusPredictive(r)
  \/ \E r \in Runs : Resume(r) /\ Determination(r)

Spec == Init /\ [][Next]_vars

\* one caller, a source whose answers carry a confidence of "0" or of no number
InitUnfiltered ==
  InitWith([callers |-> {1},
            responses |-> {RawJson(JNumber(Lit(8)), JNumber(Milli(900))),
                           RawZeroConfidence, RawLowScoreNoConfidence},
            pairs |-> {<<Entities.a, Entities.d>>},
            detailed |-> {FALSE}])

SpecUnfiltered == InitUnfiltered /\ [][Next]_vars

\* one caller, a source that grades 6, 7 or 8 with confidence 0.7, 0.8 or 0.9
InitGraded ==
  InitWith([callers |-> {1},
            responses |-> {RawJson(JNumber(Lit(6)), JNumber(Milli(700))),
                           RawJson(JNumber(Lit(7)), JNumber(Milli(800))),
                           RawJson(JNumber(Lit(8)), JNumber(Milli(900)))},
            pairs |-> {<<Entities.a, Entities.d>>},
            detailed |-> {FALSE}])

SpecGraded == InitGraded /\ [][Next]_vars

\* The two heuristic evaluators applied to entities over the attribute range.
\* (In determineWinner the whole-run fallback is entered only when evaluateModel
\* itself throws, which it does for no entity with five numeric attributes.)
HeuristicEntities ==
  {Entity("m1", "Warrior", Attributes(ap, de, sp, st, en)) :
     ap \in {0, 100}, de \in {0, 100}, sp \in {0, 33, 100}, st \in {0, 100}, en \in {0, 100}}

RandomValues == {Lit(0), Milli(999)}

InitHeuristic ==
  /\ env = [callers |-> {}, responses |-> {}, pairs |-> {}, detailed |-> {}]
  /\ interactionLog = <<>>
  /\ pc = [r \in Runs |-> IF r = 1 THEN "heuristic" ELSE "idle"]
  /\ \E model1 \in HeuristicEntities :
       args = [r \in Runs |->
                 IF r = 1
                 THEN [kind |-> "args", model1 |-> model1, model2 |-> Entities.d,
                       detailed |-> FALSE]
                 ELSE Undefined]
  /\ got = [r \in Runs |-> <<>>]
  /\ evaluations = [r \in Runs |-> Undefined]
  /\ discussionResults = [r \in Runs |-> Undefined]
  /\ consensusScores = [r \in Runs |-> NoObject]
  /\ predictiveOutcomes = [r \in Runs |-> NoObject]
  /\ finalScores = [r \in Runs |-> Undefined]
  /\ outcome = [r \in Runs |-> Undefined]
  /\ pushed = [r \in Runs |-> 0]
  /\ calls = 0
  /\ sched = [last |-> 0, switches |-> 0]
  /\ handler = NoRequest
  /\ db = <<>>

\* return this.performSimulatedEvaluations(model1, model2)
SimulatedEvaluations ==
  /\ pc[1] = "heuristic"
  /\ \E randoms \in [1..6 -> RandomValues] :
       evaluations' = [evaluations EXCEPT ![1] =
                         performSimulatedEvaluations(args[1].model1, args[1].model2, randoms)]
  /\ pc' = [pc EXCEPT ![1] = "simulated"]
  /\ UNCHANGED <<interactionLog, args, got, discussionResults, consensusScores,
                 predictiveOutcomes, finalScores, outcome, pushed, calls, sched, env, handler, db>>

\* generateFallbackEvaluation(request) for each of the six requests
FallbackEvaluations ==
  /\ pc[1] = "heuristic"
  /\ evaluations' = [evaluations EXCEPT ![1] =
       InitialEvaluations(args[1].model1, args[1].model2,
         [n \in 1..6 |->
            generateFallbackEvaluation(
              LLMRequest(IF n % 2 = 1 THEN args[1].model1 ELSE args[1].model2,
                         Slots[(n + 1) \div 2].criterion))])]
  /\ pc' = [pc EXCEPT ![1] = "fallback"]
  /\ UNCHANGED <<interactionLog, args, got, discussionResults, consensusScores,
                 predictiveOutcomes, finalScores, outcome, pushed, calls, sched, env, handler, db>>

NextHeuristic ==
  \/ SimulatedEvaluations
  \/ FallbackEvaluations

SpecHeuristic == InitHeuristic /\ [][NextHeuristic]_vars

SpecOverlap == InitOverlap /\ [][Next]_vars

\* ------------------------------------------------------------- properties
Ended(r) == pc[r] \in {"returned", "failed"}
Returned(r) == pc[r] = "returned" /\ outcome[r].kind = "result"
Ids(r) == {args[r].model1.id, args[r].model2.id}
KeySet(o) == {o[i][1] : i \in 1..Len(o)}
IsHeuristic(evaluation) == evaluation.reasoning[1] = "Fallback evaluation for"
SixOf(evals) == Values(evals.llm1) \o Values(evals.llm2) \o Values(evals.llm3)
HasEvaluations(r) == pc[r] \in {"discussion", "consensus", "determination", "returned", "failed"}

\* C1: every MatchResult returned for two entities with distinct identifiers has
\* a winner that is one of the two inputs and a scores map whose keys are exactly
\* the two identifiers.
C1_WinnerAndKeys ==
  \A r \in Runs :
    (Returned(r) /\ args[r].model1.id # args[r].model2.id) =>
      /\ outcome[r].winner \in {args[r].model1, args[r].model2}
      /\ Len(outcome[r].scores) = 2
      /\ KeySet(outcome[r].scores) = Ids(r)

C1_Witness ==
  \E r \in Runs :
    /\ Returned(r)
    /\ args[r].model1.id # args[r].model2.id
    /\ outcome[r].winner = args[r].model1

\* C2: the Determination Stage blends 0.7 * finalScore + 0.3 * predictiveOutcome * 10
\* per entity (here: to within the rounding of the two products) and the first
\* entity wins exactly when its blended score is strictly greater than the
\* second's; in every other case, equality included, the second entity wins.
Blended(r, id, x) ==
  LET f == Get(consensusScores[r], id).finalScore
      p == Get(predictiveOutcomes[r], id)
  IN  IF IsFinite(f) /\ IsFinite(p)
      THEN /\ IsFinite(x)
           /\ 1000 * x.v - (700 * f.v + 3000 * p.v) \in -5500..5500
      ELSE ~IsFinite(x)

C2_BlendAndStrictWinner ==
  \A r \in Runs :
    Returned(r) =>
      /\ Blended(r, args[r].model1.id, finalScores[r].model1)
      /\ Blended(r, args[r].model2.id, finalScores[r].model2)
      /\ outcome[r].winner =
           IF /\ IsFinite(finalScores[r].model1)
              /\ IsFinite(finalScores[r].model2)
              /\ finalScores[r].model1.v > finalScores[r].model2.v
           THEN args[r].model1
           ELSE args[r].model2

C2_Witness ==
  \E r \in Runs :
    /\ Returned(r)
    /\ IsFinite(finalScores[r].model1)
    /\ finalScores[r].model1 = finalScores[r].model2
    /\ outcome[r].winner = args[r].model2
    /\ args[r].model1 # args[r].model2

CompleteResult(r) ==
  /\ outcome[r].kind = "result"
  /\ outcome[r].winner \in {args[r].model1, args[r].model2}
  /\ KeySet(outcome[r].scores) = Ids(r)
  /\ \A i \in 1..Len(outcome[r].scores) : IsFinite(outcome[r].scores[i][2])
  /\ IsFinite(outcome[r].confidence)
  /\ outcome[r].reasoning # Undefined

C4_CompleteOrGenericError ==
  \A r \in Runs :
    Ended(r) => (CompleteResult(r) \/ outcome[r] = GenericError)

\* C5 as stated: the EvaluationSet is all-or-nothing, six source evaluations or
\* six heuristic ones, never a mix.
C5_AllOrNothing ==
  \A r \in Runs :
    (HasEvaluations(r) /\ evaluations[r] # Undefined) =>
      \/ \A e \in {SixOf(evaluations[r])[i] : i \in 1..6} : IsHeuristic(e)
      \/ \A e \in {SixOf(evaluations[r])[i] : i \in 1..6} : ~IsHeuristic(e)

\* C6 as stated: a run in which a source call failed still returns a MatchResult.
C6_FailureStillReturnsResult ==
  \A r \in Runs :
    (/\ Ended(r)
     /\ evaluations[r] # Undefined
     /\ \E i \in 1..6 : IsHeuristic(SixOf(evaluations[r])[i]))
      => outcome[r].kind = "result"

Active(r) == pc[r] \in {"initial_evaluation", "discussion", "consensus", "determination"}
IsPrefix(s, t) == Len(s) <= Len(t) /\ SubSeq(t, 1, Len(s)) = s
Own(r) == SelectSeq(interactionLog, LAMBDA e : e.run = r)
Other(r) == CHOOSE q \in Runs : q # r

\* C7 as stated: the interactions returned by determineWinnerWithDetails are all
\* and only the entries the run appended, from its own start_evaluation entry to
\* its own winner_determined entry, also when two runs overlap on one instance.
C7_LogOwnedByRun ==
  \A r \in Runs :
    (Returned(r) /\ args[r].detailed) =>
      LET log == outcome[r].interactions
      IN  /\ \A i \in 1..Len(log) : log[i].run = r
          /\ Len(log) = pushed[r]
          /\ log[1].action = "start_evaluation"
          /\ log[Len(log)].action = "winner_determined"

\* C8 as stated: between the reset at the start of a call and the return of that
\* call every step leaves the entries already in the log in place and only adds
\* entries at the end.
C8_AppendOnlyWithinRun ==
  [][(\E r \in Runs : Active(r)) => IsPrefix(interactionLog, interactionLog')]_vars

\* C9: the stages of one run execute in the order Initial Evaluation, Discussion,
\* Consensus, Predictive, Determination: among the entries a run has logged no
\* initial_evaluation entry follows a discussion entry, no discussion entry follows
\* a consensus_building entry, no consensus_building entry follows a
\* predictive_integration entry, and a run logs a discussion entry only once all
\* six of its evaluations have resolved.
Follows(log, later, earlier) ==
  \E i, j \in 1..Len(log) : i < j /\ log[i].phase = earlier /\ log[j].phase = later

C9_StagesSequential ==
  \A r \in Runs :
    /\ ~Follows(Own(r), "initial_evaluation", "discussion")
    /\ ~Follows(Own(r), "discussion", "consensus_building")
    /\ ~Follows(Own(r), "consensus_building", "predictive_integration")
    /\ (\E i \in 1..Len(Own(r)) : Own(r)[i].phase = "discussion") =>
         (evaluations[r] # Undefined /\ got[r] = <<>> /\ pc[r] # "initial_evaluation")

C9_Witness ==
  \E r \in Runs :
    /\ Returned(r)
    /\ \A ph \in {"initial_evaluation", "discussion", "consensus_building",
                  "predictive_integration"} :
         \E i \in 1..Len(Own(r)) : Own(r)[i].phase = ph
    /\ \E i, j \in 1..Len(interactionLog) :
         /\ i < j
         /\ interactionLog[i].run = r
         /\ interactionLog[i].phase = "discussion"
         /\ interactionLog[j].run = Other(r)

\* C10: when the population variance (sum of squared deviations over 3) of the
\* three slot scores is at most 2 for both entities, exactly 2 and 0 included, the
\* Discussion Stage returns every score and confidence unchanged and runs no round.
AtMostTwo(scores) ==
  /\ \A i \in 1..3 : IsFinite(scores[i])
  /\ LET sum == scores[1].v + scores[2].v + scores[3].v
         squares == scores[1].v * scores[1].v + scores[2].v * scores[2].v
                      + scores[3].v * scores[3].v
     IN  3 * squares - sum * sum <= 18 * Scale * Scale

ExactlyTwo(scores) ==
  /\ \A i \in 1..3 : IsFinite(scores[i])
  /\ LET sum == scores[1].v + scores[2].v + scores[3].v
         squares == scores[1].v * scores[1].v + scores[2].v * scores[2].v
                      + scores[3].v * scores[3].v
     IN  3 * squares - sum * sum = 18 * Scale * Scale

DiscussionDone(r) == pc[r] \in {"consensus", "determination", "returned", "failed"}

NoRound(r) ==
  /\ discussionResults[r].evaluations = evaluations[r]
  /\ discussionResults[r].reasoning.text = "Agreement achieved"
  /\ \A i \in 1..Len(interactionLog) :
       interactionLog[i].action \notin {"high_disagreement_detected", "discussion_completed"}

C10_LowVarianceUnchanged ==
  \A r \in Runs :
    (/\ DiscussionDone(r)
     /\ \A id \in Ids(r) : AtMostTwo(SlotScores(evaluations[r], id)))
      => NoRound(r)

C10_Witness ==
  \E r \in Runs :
    /\ DiscussionDone(r)
    /\ \A id \in Ids(r) : AtMostTwo(SlotScores(evaluations[r], id))
    /\ \E id \in Ids(r) : ExactlyTwo(SlotScores(evaluations[r], id))
    /\ NoRound(r)

SlotNames == {"llm1", "llm2", "llm3"}
SumOf(scores) == scores[1].v + scores[2].v + scores[3].v
AllFinite(scores) == \A i \in 1..3 : IsFinite(scores[i])
Within(x, y, tolerance) == x - y \in -tolerance..tolerance

\* the population variance of the three scores is greater than 2
AboveTwo(scores) == AllFinite(scores) /\ ~AtMostTwo(scores)

RoundDue(r) == \E id \in Ids(r) : AboveTwo(SlotScores(evaluations[r], id))

\* post.score is 0.6 * pre.score + 0.4 * mean of the entity's three scores
ScoreMoved(pre, post, scores) ==
  IF AllFinite(scores)
  THEN /\ IsFinite(post.score)
       /\ Within(3000 * post.score.v, 1800 * pre.score.v + 400 * SumOf(scores), 4500)
  ELSE ~IsFinite(post.score)

\* post.confidence is pre.confidence + 0.3 * (1 - pre.confidence)
ConfidenceRaised(pre, post) ==
  IF IsFinite(pre.confidence)
  THEN /\ IsFinite(post.confidence)
       /\ Within(1000 * post.confidence.v, 700 * pre.confidence.v + 300 * Scale, 1000)
  ELSE ~IsFinite(post.confidence)

\* C11 as stated: when an entity's variance exceeds 2, the round replaces, for
\* both entities and all three slots, (score, confidence) by
\* (0.6 * score + 0.4 * mean, confidence + 0.3 * (1 - confidence)).
C11_RoundAdjustsEverySlot ==
  \A r \in Runs :
    (DiscussionDone(r) /\ RoundDue(r)) =>
      \A id \in Ids(r), slot \in SlotNames :
        LET pre == Get(evaluations[r][slot], id)
            post == Get(discussionResults[r].evaluations[slot], id)
        IN  /\ ScoreMoved(pre, post, SlotScores(evaluations[r], id))
            /\ ConfidenceRaised(pre, post)

\* C12: at most one convergence round is performed per run: the variance is
\* computed once per entity, the round is entered at most once, and the scores
\* handed on are either the initial ones or the initial ones moved once towards the
\* mean, also when the variance after the round is still above 2.
CountOf(action) ==
  Cardinality({i \in 1..Len(interactionLog) : interactionLog[i].action = action})

ConsensusDone(r) == pc[r] \in {"determination", "returned", "failed"}

\* weighted is score * confidence
WeightedIs(weighted, score, confidence) ==
  IF IsFinite(score) /\ IsFinite(confidence)
  THEN IsFinite(weighted) /\ Within(Scale * weighted.v, score.v * confidence.v, Scale)
  ELSE ~IsFinite(weighted)

\* finalScore is the sum of the weighted scores over the sum of the confidences
FinalScoreIs(finalScore, weighted, confidences) ==
  IF AllFinite(weighted) /\ AllFinite(confidences) /\ SumOf(confidences) # 0
  THEN /\ IsFinite(finalScore)
       /\ Within(finalScore.v * SumOf(confidences), Scale * SumOf(weighted), SumOf(confidences))
  ELSE ~IsFinite(finalScore)

\* C13: for each entity the Consensus Stage sets weightedScores[i] to
\* score[i] * confidence[i] and finalScore to the sum of the weighted scores over
\* the sum of the confidences, from the scores and confidences the Discussion
\* Stage handed on.
C13_ConfidenceWeightedMean ==
  \A r \in Runs :
    ConsensusDone(r) =>
      \A id \in Ids(r) :
        LET entry == Get(consensusScores[r], id)
            scores == SlotScores(discussionResults[r].evaluations, id)
            confidences == SlotConfidences(discussionResults[r].evaluations, id)
        IN  IsConsensusEntry(entry) =>
              /\ entry.individualScores = scores
              /\ entry.confidenceScores = confidences
              /\ \A i \in 1..3 : WeightedIs(entry.weightedScores[i], scores[i], confidences[i])
              /\ FinalScoreIs(entry.finalScore, entry.weightedScores, confidences)

C13_Witness ==
  \E r \in Runs :
    /\ ConsensusDone(r)
    /\ discussionResults[r].evaluations # evaluations[r]
    /\ \E id \in Ids(r) :
         LET entry == Get(consensusScores[r], id)
         IN  /\ IsConsensusEntry(entry)
             /\ IsFinite(entry.finalScore)
             /\ 3 * entry.finalScore.v - SumOf(entry.individualScores) \notin -30..30

\* the entity's slot scores are 6, 7, 8 and its confidences 0.7, 0.8, 0.9
SixSevenEight(r, id) ==
  /\ SlotScores(discussionResults[r].evaluations, id) = <<Lit(6), Lit(7), Lit(8)>>
  /\ SlotConfidences(discussionResults[r].evaluations, id)
       = <<Milli(700), Milli(800), Milli(900)>>

\* C14: for an entity with slot scores [6, 7, 8] and confidences [0.7, 0.8, 0.9]
\* the Consensus Stage's finalScore is (4.2 + 5.6 + 7.2) / 2.4 = 7.083 (to three
\* decimals).
C14_FinalScoreOfExample ==
  \A r \in Runs :
    ConsensusDone(r) =>
      \A id \in Ids(r) :
        SixSevenEight(r, id) => Get(consensusScores[r], id).finalScore = Milli(7083)

C14_Witness ==
  \E r \in Runs :
    /\ ConsensusDone(r)
    /\ \E id \in Ids(r) :
         /\ SixSevenEight(r, id)
         /\ Get(consensusScores[r], id).weightedScores = <<Milli(4200), Milli(5600), Milli(7200)>>
         /\ Get(consensusScores[r], id).finalScore = Milli(7083)

\* C14 as stated: for that entity the finalScore is 7.5.
C14_FinalScoreSevenAndHalf ==
  \A r \in Runs :
    ConsensusDone(r) =>
      \A id \in Ids(r) :
        SixSevenEight(r, id) => Get(consensusScores[r], id).finalScore = Milli(7500)

\* confidence is min(1, |score1 - score2| / 2 + 0.5)
ConfidenceOfGap(confidence, score1, score2) ==
  IF IsFinite(score1) /\ IsFinite(score2)
  THEN LET gap == IF score1.v >= score2.v THEN score1.v - score2.v ELSE score2.v - score1.v
       IN  /\ IsFinite(confidence)
           /\ Within(2 * confidence.v, IF gap >= Scale THEN 2 * Scale ELSE gap + Scale, 2)
           /\ confidence.v \in (Scale \div 2)..Scale
           /\ gap = 0 => confidence = Milli(500)
           /\ gap >= Scale => confidence = Lit(1)
  ELSE ~IsFinite(confidence)

\* C15 as stated: the confidence reported in every MatchResult is
\* min(1, |finalScore_1 - finalScore_2| / 2 + 0.5) of the two consensus finalScores.
C15_ReportedConfidence ==
  \A r \in Runs :
    Returned(r) =>
      ConfidenceOfGap(outcome[r].confidence,
                      Get(outcome[r].scores, args[r].model1.id),
                      Get(outcome[r].scores, args[r].model2.id))

\* C16 as stated: when the three confidences of an entity that reach the
\* Consensus Stage are all exactly zero, the run ends in the generic error and
\* returns no MatchResult.
ZeroConfidences(r, id) ==
  SlotConfidences(discussionResults[r].evaluations, id) = <<Lit(0), Lit(0), Lit(0)>>

C16_ZeroConfidenceIsFatal ==
  \A r \in Runs :
    (Ended(r) /\ \E id \in Ids(r) : ZeroConfidences(r, id)) => outcome[r] = GenericError

\* C17 as stated: a source response whose score or confidence is no number never
\* enters the EvaluationSet, so every score and every confidence the later stages
\* use is a real number.
C17_OnlyNumbersEnter ==
  \A r \in Runs :
    (HasEvaluations(r) /\ evaluations[r] # Undefined) =>
      \A i \in 1..6 :
        /\ IsFinite(SixOf(evaluations[r])[i].score)
        /\ IsFinite(SixOf(evaluations[r])[i].confidence)

\* C18 as stated: every confidence in the EvaluationSet handed to the Consensus
\* Stage is at least 0.7, so the confidence sum used as divisor is positive.
C18_ConfidenceAtLeastSevenTenths ==
  \A r \in Runs :
    DiscussionDone(r) =>
      \A id \in Ids(r) :
        LET confidences == SlotConfidences(discussionResults[r].evaluations, id)
        IN  /\ \A i \in 1..3 : IsFinite(confidences[i]) /\ confidences[i].v >= 700
            /\ SumOf(confidences) > 0

HeuristicDone == pc[1] \in {"simulated", "fallback"}

\* the two attributes a slot's heuristic score is based on
BasisOf(slot, attributes) ==
  CASE slot = "llm1" -> attributes.strategy.v + attributes.endurance.v
    [] slot = "llm2" -> attributes.defense.v + attributes.speed_agility.v
    [] slot = "llm3" -> attributes.attack_power.v + attributes.speed_agility.v

HeuristicModels == {args[1].model1, args[1].model2}

\* C19: the heuristic evaluator's score is 5 + (basis / 100) * 5 with basis the
\* mean of strategy and endurance for creativity, of defense and agility for
\* technical, of offense and agility for performance; for attributes in [0, 100]
\* it lies in [5, 10].
C19_HeuristicScore ==
  HeuristicDone =>
    \A model \in HeuristicModels, slot \in SlotNames :
      LET score == Get(evaluations[1][slot], model.id).score
      IN  /\ IsFinite(score)
          /\ Within(40 * (score.v - 5 * Scale), BasisOf(slot, model.attributes), 60)
          /\ score.v \in (5 * Scale)..(10 * Scale)

C19_Witness ==
  /\ pc[1] = "simulated"
  /\ Get(evaluations[1].llm1, args[1].model1.id).score = Lit(5)
  /\ Get(evaluations[1].llm2, args[1].model1.id).score = Lit(10)
  /\ Get(evaluations[1].llm3, args[1].model1.id).score = Milli(7500)

\* C20: an evaluation of the source adapter's own fallback carries the confidence
\* 0.7; an evaluation of the whole-run fallback carries a confidence drawn from
\* 0.7 up to 0.95.
HeuristicConfidences ==
  {Get(evaluations[1][slot], model.id).confidence : model \in HeuristicModels, slot \in SlotNames}

C20_HeuristicConfidence ==
  /\ pc[1] = "fallback" => HeuristicConfidences = {Milli(700)}
  /\ pc[1] = "simulated" =>
       \A confidence \in HeuristicConfidences :
         IsFinite(confidence) /\ confidence.v \in 700..950

C20_Witness ==
  /\ pc[1] = "simulated"
  /\ \E confidence \in HeuristicConfidences : confidence.v > 700
  /\ \E confidence \in HeuristicConfidences : confidence.v = 700

\* C20 as stated: every evaluation of the heuristic evaluator carries the
\* confidence 0.7, on both fallback paths.
C20_AlwaysSevenTenths ==
  HeuristicDone => HeuristicConfidences = {Milli(700)}

\* ------------------------------------------------------------- repeated runs
\* two callers of the one instance with the same two entities in either order, a
\* source that is down, so that every evaluation is the adapter's own fallback
InitRepeat ==
  InitWith([callers |-> Runs,
            responses |-> {RawThrow},
            pairs |-> {<<Entities.a, Entities.d>>, <<Entities.d, Entities.a>>},
            detailed |-> {FALSE}])

SpecRepeat == InitRepeat /\ [][Next]_vars

SameInputs(r, q) ==
  /\ HasEvaluations(r)
  /\ HasEvaluations(q)
  /\ args[r].model1 = args[q].model1
  /\ args[r].model2 = args[q].model2
  /\ evaluations[r] = evaluations[q]

InitExtreme ==
  InitWith([callers |-> {1},
            responses |-> {RawJson(JNumber(Lit(8)), JNumber(Milli(900))),
                           RawJson(JNumber(Lit(6)), JNumber(Milli(700)))},
            pairs |-> {<<Entities.a, Entities.e>>, <<Entities.f, Entities.a>>,
                       <<Entities.a, Entities.d>>},
            detailed |-> {TRUE}])

SpecExtreme == InitExtreme /\ [][Next]_vars

PredictiveDone(r) == pc[r] \in {"determination", "returned"}
ModelOf(r, id) == IF args[r].model1.id = id THEN args[r].model1 ELSE args[r].model2
InRange(model) ==
  \A attr \in DOMAIN model.attributes :
    model.attributes[attr].v \in 0..(100 * Scale)
UnitConfidences(confidences) ==
  \A i \in 1..Len(confidences) :
    IsFinite(confidences[i]) /\ confidences[i].v \in 0..Scale

\* C22: the predictive outcome of an entity is a number in [0, 1] for any finite
\* confidences and attributes, and strictly between 0 and 1 when the five
\* attributes lie in 0..100 and the three confidences in 0..1.
C22_InUnitInterval ==
  \A r \in Runs :
    PredictiveDone(r) =>
      \A id \in Ids(r) :
        LET p == Get(predictiveOutcomes[r], id)
            confidences == Get(consensusScores[r], id).confidenceScores
        IN  AllFinite(confidences) =>
              /\ IsFinite(p)
              /\ p.v \in 0..Scale
              /\ InRange(ModelOf(r, id)) /\ UnitConfidences(confidences) => p.v \in 1..(Scale - 1)

C22_Witness ==
  /\ PredictiveDone(1)
  /\ args[1].model1 = Entities.a
  /\ args[1].model2 = Entities.d
  /\ \A id \in Ids(1) : Get(predictiveOutcomes[1], id).v \in 1..(Scale - 1)

\* C22 as stated: the predictive outcome is strictly between 0 and 1 for any
\* finite confidence-weighted feature vector.
C22_StrictlyBetween ==
  \A r \in Runs :
    PredictiveDone(r) =>
      \A id \in Ids(r) :
        LET p == Get(predictiveOutcomes[r], id)
        IN  AllFinite(Get(consensusScores[r], id).confidenceScores) =>
              IsFinite(p) /\ p.v > 0 /\ p.v < Scale

\* ------------------------------------------------------------- controller
requiredAttributes == {"attack_power", "defense", "speed_agility", "strategy", "endurance"}

\* validateModel checking the id and the name only
validateModel_IdAndName(model) ==
  ~(Falsy(Field(model, "id")) \/ Falsy(Field(model, "name")))

validateModel(model) ==
  IF Falsy(Field(model, "id")) \/ Falsy(Field(model, "name")) \/ Falsy(Field(model, "attributes"))
  THEN FALSE
  ELSE \A attr \in requiredAttributes :
         typeof(Field(Field(model, "attributes"), attr)) = "number"

\* the entity record as the request body carries it
ModelBody(entity) ==
  JObject([id |-> JString(entity.id),
           name |-> JString(entity.name),
           attributes |-> JObject([attr \in requiredAttributes |->
                                     JNumber(entity.attributes[attr])])])

\* the Model the service is handed: the object of the body itself
ToModel(j) ==
  Entity(Field(j, "id").s, Field(j, "name").s,
         [attr \in requiredAttributes |-> Field(Field(j, "attributes"), attr).n])

Without(j, name) == JObject([k \in DOMAIN j.fields \ {name} |-> j.fields[k]])
With(j, name, value) == JObject([k \in DOMAIN j.fields \cup {name} |->
                                   IF k = name THEN value ELSE j.fields[k]])

\* an entity record and the ways in which a request may spoil it
RequestModels(entity) ==
  LET good == ModelBody(entity)
  IN  {good, JMissing, JNull,
       Without(good, "id"), With(good, "id", JString("")),
       Without(good, "name"),
       Without(good, "attributes"), With(good, "attributes", JNull),
       With(good, "attributes", JString("strong")),
       With(good, "attributes", Without(good.fields.attributes, "strategy")),
       With(good, "attributes", With(good.fields.attributes, "endurance", JString("60"))),
       With(good, "attributes", With(good.fields.attributes, "attack_power", JNull))}

RequestBodies ==
  {JObject([model1 |-> model1, model2 |-> model2]) :
     model1 \in RequestModels(Entities.a) \cup {ModelBody(Entities.c)},
     model2 \in RequestModels(Entities.d)}

\* DBService.executeQuery: the rows, or the error it throws when the pool fails
executeQuery(poolFails) ==
  IF poolFails THEN [threw |-> TRUE, error |-> "Database query failed"]
  ELSE [threw |-> FALSE, error |-> ""]

\* DBService.logPTCEEvaluation: its catch logs the failure and does not rethrow
logPTCEEvaluation(poolFails) ==
  LET query == executeQuery(poolFails)
  IN  IF query.threw
      THEN [threw |-> FALSE, logged |-> "Failed to log PTCE evaluation:"]
      ELSE [threw |-> FALSE, logged |-> "PTCE evaluation logged for match"]

\* ModelService.saveMatchResult: true unless logPTCEEvaluation throws
saveMatchResult(poolFails) ==
  IF logPTCEEvaluation(poolFails).threw THEN FALSE ELSE TRUE

Response(status, body) == [status |-> status, body |-> body]
BadRequest(message) == Response(400, [kind |-> "error", error |-> message])
ServerError == Response(500, [kind |-> "error", error |-> "Server error processing PTCE determination"])

\* one request to /determine-winner or /determine-winner-detailed, a source that
\* answers or is down, a pool that takes the insert or fails
InitController ==
  /\ InitService([callers |-> {}, pairs |-> {}, detailed |-> {},
                  responses |-> {RawJson(JNumber(Lit(8)), JNumber(Milli(900))), RawThrow}])
  /\ \E body \in RequestBodies, detailed \in BOOLEAN :
       handler = [at |-> "received", body |-> body, detailed |-> detailed,
                  matchId |-> "", saved |-> "pending", insert |-> "pending",
                  response |-> Response(0, Undefined)]
  /\ db = <<>>

\* the handler from its entry to the await of the service call, or to the 400
HandleRequest ==
  /\ handler.at = "received"
  /\ LET model1 == Field(handler.body, "model1")
         model2 == Field(handler.body, "model2")
         Reject(message) ==
           /\ handler' = [handler EXCEPT !.at = "responded", !.response = BadRequest(message)]
           /\ UNCHANGED <<interactionLog, pc, args, got, evaluations, discussionResults,
                          consensusScores, predictiveOutcomes, finalScores, outcome, pushed,
                          calls, env>>
     IN  IF Falsy(model1) \/ Falsy(model2)
         THEN Reject("Both model1 and model2 are required")
         ELSE IF ~validateModel(model1) \/ ~validateModel(model2)
         THEN Reject("Models are missing required attributes")
         ELSE /\ Call(1, ToModel(model1), ToModel(model2), handler.detailed)
              /\ handler' = [handler EXCEPT !.at = "service", !.matchId = "uuid"]
  /\ UNCHANGED <<sched, db>>

\* the handler resumed with the outcome of the service call: the outer catch
\* answers 500; otherwise saveMatchResult is called and awaits the insert
ServiceSettled ==
  /\ handler.at = "service"
  /\ Ended(1)
  /\ IF pc[1] = "failed"
     THEN handler' = [handler EXCEPT !.at = "responded", !.response = ServerError]
     ELSE handler' = [handler EXCEPT !.at = "insert"]
  /\ UNCHANGED <<interactionLog, pc, args, got, evaluations, discussionResults,
                 consensusScores, predictiveOutcomes, finalScores, outcome, pushed,
                 calls, sched, env, db>>

\* the parameters of the INSERT INTO ptce_evaluations
Row ==
  [match_id |-> handler.matchId,
   model1_id |-> args[1].model1.id,
   model2_id |-> args[1].model2.id,
   winner_id |-> outcome[1].winner.id,
   model1_score |-> Get(outcome[1].scores, args[1].model1.id),
   model2_score |-> Get(outcome[1].scores, args[1].model2.id),
   confidence |-> outcome[1].confidence,
   reasoning |-> outcome[1].reasoning]

\* dbPool.query settles; saveMatchResult returns and the handler sends the result
InsertSettled ==
  /\ handler.at = "insert"
  /\ \E poolFails \in BOOLEAN :
       /\ db' = IF poolFails THEN db ELSE Append(db, Row)
       /\ handler' = [handler EXCEPT
                        !.at = "responded",
                        !.insert = IF poolFails THEN "failed" ELSE "written",
                        !.saved = IF saveMatchResult(poolFails) THEN "true" ELSE "false",
                        !.response = Response(200, [kind |-> "match", matchId |-> handler.matchId,
                                                    result |-> outcome[1]])]
  /\ UNCHANGED <<interactionLog, pc, args, got, evaluations, discussionResults,
                 consensusScores, predictiveOutcomes, finalScores, outcome, pushed,
                 calls, sched, env>>

NextController ==
  \/ HandleRequest
  \/ Resume(1) /\ EvalResolve(1)
  \/ Resume(1) /\ Discussion(1)
  \/ Resume(1) /\ ConsensusPredictive(1)
  \/ Resume(1) /\ Determination(1)
  \/ ServiceSettled
  \/ InsertSettled

SpecController == InitController /\ [][NextController]_vars

\* the record of the body is unfit in one of the ways the validation names
Unfit(model) ==
  \/ model.t # "object"
  \/ Field(model, "id").t # "string"
  \/ Field(model, "name").t # "string"
  \/ Field(model, "attributes").t # "object"
  \/ \E attr \in requiredAttributes : Field(Field(model, "attributes"), attr).t # "number"

UnfitRequest ==
  /\ handler.at # "none"
  /\ Unfit(Field(handler.body, "model1")) \/ Unfit(Field(handler.body, "model2"))

\* C23: a request in which either model is absent, lacks an id, a name or the
\* attributes object, or has one of the five attributes that is no number, is
\* answered with status 400; the service is never called for it and no row is
\* written.
C23_UnfitRequestRejected ==
  UnfitRequest =>
    /\ handler.at \in {"received", "responded"}
    /\ handler.at = "responded" => handler.response.status = 400
    /\ calls = 0
    /\ pc[1] = "idle"
    /\ interactionLog = <<>>
    /\ db = <<>>

C23_Witness ==
  /\ handler.at = "responded"
  /\ handler.response.status = 400
  /\ ~Unfit(Field(handler.body, "model1"))
  /\ Field(Field(Field(handler.body, "model2"), "attributes"), "endurance") = JString("60")

\* C27 as stated: saveMatchResult returns false whenever the insert of the
\* evaluation record fails, and true only when the record was written.
C27_SaveReportsFailure ==
  handler.at = "responded" /\ handler.saved # "pending" =>
    /\ handler.insert = "failed" => handler.saved = "false"
    /\ handler.saved = "true" =>
         /\ handler.insert = "written"
         /\ \E i \in 1..Len(db) : db[i].match_id = handler.matchId

\* C24 as stated: in every returned MatchResult the winner's entry in the scores
\* map is never lower than the other entity's entry, and it is strictly greater
\* whenever the first entity is the winner.
C24_ScoresAgreeWithWinner ==
  \A r \in Runs :
    Returned(r) =>
      LET first == Get(outcome[r].scores, args[r].model1.id)
          second == Get(outcome[r].scores, args[r].model2.id)
      IN  /\ IsFinite(first)
          /\ IsFinite(second)
          /\ IF outcome[r].winner = args[r].model1
             THEN first.v > second.v
             ELSE second.v >= first.v

\* C25: a run leaves its inputs unchanged. No step of a run changes the two
\* entities it was given; no step after the Initial Evaluation Stage changes the
\* EvaluationSet that stage built; a detailed result holds that EvaluationSet as
\* initialEvaluations and the adjusted one as discussionResults.evaluations,
\* which differ when a convergence round ran.
C25_InputsUnchanged ==
  [][\A r \in Runs :
       /\ Active(r) => args'[r] = args[r]
       /\ pc[r] \in {"discussion", "consensus", "determination"} =>
            evaluations'[r] = evaluations[r]
       /\ pc[r] = "determination" /\ args[r].detailed =>
            /\ outcome'[r].initialEvaluations = evaluations[r]
            /\ outcome'[r].discussionResults = discussionResults[r]
            /\ RoundDue(r) =>
                 outcome'[r].discussionResults.evaluations # outcome'[r].initialEvaluations]_vars

C25_Witness ==
  /\ Returned(1)
  /\ args[1].detailed
  /\ RoundDue(1)
  /\ outcome[1].initialEvaluations = evaluations[1]
  /\ outcome[1].discussionResults.evaluations # evaluations[1]

\* ------------------------------------------------------------- progress
\* one caller, a source that answers or is down, pairs that end in a result and
\* in the generic error
InitFair ==
  InitWith([callers |-> {1},
            responses |-> {RawJson(JNumber(Lit(8)), JNumber(Milli(900))), RawThrow},
            pairs |-> {<<Entities.a, Entities.d>>, <<Entities.c, Entities.a>>},
            detailed |-> BOOLEAN])

\* Steps named by what they do to pc and pushed alone, for the fairness
\* conditions: the pipeline's actions are too costly for TLC to evaluate under
\* ENABLED. Moves(r, from, to) is the step of run r from one stage to the next;
\* Settles(r) is the step in which an awaited source call of run r settles and
\* its evaluation is logged. Each is enabled exactly where the action of Next
\* that takes it is: those actions have no guard but pc[r] (and a response of the
\* source for EvalResolve).
Moves(r, from, to) == pc[r] = from /\ pc' = [pc EXCEPT ![r] = to]
Settles(r) ==
  /\ pc[r] = "initial_evaluation"
  /\ \E k \in 1..2 : pushed' = [pushed EXCEPT ![r] = @ + k]

\* the event loop runs the continuation of every settled promise: the awaits of
\* Discussion through Determination are on promises that are already resolved
EventLoop ==
  \A r \in Runs :
    /\ WF_pc(Moves(r, "discussion", "consensus"))
    /\ WF_pc(Moves(r, "consensus", "determination") \/ Moves(r, "consensus", "failed"))
    /\ WF_pc(Moves(r, "determination", "returned"))

\* every awaited Evaluation Source call resolves or fails
SourceSettles == \A r \in Runs : WF_pushed(Settles(r))

SpecFair == InitFair /\ [][Next]_vars /\ EventLoop

Completed(r) ==
  \/ pc[r] = "returned" /\ outcome[r].kind = "result"
  \/ pc[r] = "failed" /\ outcome[r] = GenericError

\* C26: when every Evaluation Source call of a run resolves or fails, the run
\* completes with a MatchResult or the generic error; once the last source call
\* has settled, the run completes whatever the source does from then on.
C26_RunCompletes ==
  /\ SourceSettles => \A r \in Runs : Active(r) ~> Completed(r)
  /\ \A r \in Runs : pc[r] \in {"discussion", "consensus", "determination"} ~> Completed(r)

C26_Witness ==
  /\ Completed(1)
  /\ pc[1] = "failed"
  /\ \E i \in 1..Len(interactionLog) : interactionLog[i].action = "completed_initial_evaluations"

\* ------------------------------------------------------------- argument order
\* the per-entity evaluations of run r as a call with the two entities in the
\* other order holds them
SwappedEvaluations(r) ==
  LET PerSlot(slot) ==
        Put(Put(<<>>, args[r].model2.id, Get(evaluations[r][slot], args[r].model2.id)),
            args[r].model1.id, Get(evaluations[r][slot], args[r].model1.id))
  IN  [llm1 |-> PerSlot("llm1"), llm2 |-> PerSlot("llm2"), llm3 |-> PerSlot("llm3")]

\* determineWinner(model2, model1) from the Discussion Stage on, given the
\* evaluations of run r: the winner and the confidence it reports
SwappedCall(r) ==
  LET d == facilitateInteractiveDiscussion(r, SwappedEvaluations(r))
      c == calculateConsensusScores(r, [evaluations |-> d.evaluations, reasoning |-> d.reasoning],
                                    <<args[r].model2.id, args[r].model1.id>>)
      p == generatePredictiveOutcomes(r, args[r].model2, args[r].model1, c.result)
      w == determineWinnerModel(r, args[r].model2, args[r].model1, c.result, p.result)
  IN  [winner |-> w.winner,
       confidence |-> OrElse(Get(c.result, "confidence"), Milli(700)),
       model1FinalScore |-> w.model1FinalScore,
       model2FinalScore |-> w.model2FinalScore]

\* C28 as stated: given the same per-entity evaluations, the call with the two
\* entities in the other order selects the same entity and reports the same
\* confidence whenever the two blended scores differ, and the two calls select
\* different entities (each its second argument) only when the blended scores
\* are exactly equal.
C28_OrderIndependent ==
  \A r \in Runs :
    Returned(r) =>
      LET other == SwappedCall(r)
          equal == /\ IsFinite(finalScores[r].model1)
                   /\ finalScores[r].model1 = finalScores[r].model2
      IN  /\ ~equal => other.winner = outcome[r].winner /\ other.confidence = outcome[r].confidence
          /\ equal => outcome[r].winner = args[r].model2 /\ other.winner = args[r].model1

\* ------------------------------------------------------------- spread of scores
\* one caller, a source that answers 2 or 8 or is down: the three scores of an
\* entity spread below, at and above the variance 2 / 0.36
InitSpread ==
  InitWith([callers |-> {1},
            responses |-> {RawJson(JNumber(Lit(2)), JNumber(Milli(900))),
                           RawJson(JNumber(Lit(8)), JNumber(Milli(900))),
                           RawThrow},
            pairs |-> {<<Entities.a, Entities.d>>},
            detailed |-> {FALSE}])

SpecSpread == InitSpread /\ [][Next]_vars

\* nine times the population variance of three scores, in squared thousandths
Spread(scores) ==
  3 * (scores[1].v * scores[1].v + scores[2].v * scores[2].v + scores[3].v * scores[3].v)
    - SumOf(scores) * SumOf(scores)

\* C29: a convergence round preserves the mean of an entity's three scores and
\* multiplies their population variance by 0.36 (up to the rounding of the
\* scores); the variance decreases when it was positive, and it is above 2 after
\* the round exactly when it was above 2 / 0.36 before it.
C29_RoundScalesVariance ==
  \A r \in Runs :
    (DiscussionDone(r) /\ RoundDue(r)) =>
      \A id \in Ids(r) :
        LET pre == SlotScores(evaluations[r], id)
            post == SlotScores(discussionResults[r].evaluations, id)
        IN  AllFinite(pre) =>
              /\ AllFinite(post)
              /\ Within(SumOf(post), SumOf(pre), 5)
              /\ Within(25 * (Spread(post) \div 100), 9 * (Spread(pre) \div 100), 120 * Scale)
              /\ Spread(pre) > 0 => Spread(post) < Spread(pre)
              /\ AboveTwo(post) <=> Spread(pre) > 50 * Scale * Scale

C29_Witness ==
  /\ DiscussionDone(1)
  /\ SlotScores(evaluations[1], "m1") = <<Lit(2), Lit(8), Lit(8)>>
  /\ AboveTwo(SlotScores(discussionResults[1].evaluations, "m1"))
  /\ Spread(SlotScores(evaluations[1], "m3")) \in 1..(50 * Scale * Scale)
  /\ ~AboveTwo(SlotScores(discussionResults[1].evaluations, "m3"))

\* C30 as stated: for every pair of distinct identifiers, the identifier
\* "confidence" included, the ConsensusEntry of each entity is still in the
\* ConsensusScores object when the Predictive and Determination stages read it,
\* and the run returns a MatchResult.
C30_EntrySurvivesConfidence ==
  \A r \in Runs :
    ConsensusDone(r) =>
      /\ \A id \in Ids(r) : IsConsensusEntry(Get(consensusScores[r], id))
      /\ pc[r] # "failed"
      /\ pc[r] = "returned" => outcome[r].kind = "result"

====
